---- MODULE Spec2Model ----
(***************************************************************************)
(* Model of crypto/bls/src/aggregate_signature.rs: the generic             *)
(* AggregateSignature wrapper over a pluggable backend point type AggSig.  *)
(*                                                                         *)
(* The wrapper's only field is `point: Option<AggSig>`.  An Option is      *)
(* modelled as a sequence of length 0 (None) or 1 (Some(p)).  The backend  *)
(* (the TAggregateSignature implementation) is not part of this file; it   *)
(* is modelled from its contract as the additive group Z_GroupOrder with a *)
(* compressed-point style 96-byte encoding that is never all-zero.         *)
(***************************************************************************)
EXTENDS Integers, Sequences, FiniteSets, TLC

\* ------------------------------------------------------------------ bounds
GroupOrder == 3      \* size of the backend's point group
MaxFolds == 3        \* number of add_assign / add_assign_aggregate calls
MaxVerifyFolds == 1  \* verification is explored on instances with at most
                     \* this many folds (it reads only `point`, and every
                     \* value of `point` is reached within one fold)
MaxKeys == 2         \* longest pubkeys / msgs slice passed to verification
NumKeys == 2         \* distinct public keys
NumMsgs == 2         \* distinct message digests

\* --------------------------------------------------------------- constants
SIGNATURE_BYTES_LEN == 96

NONE_SIGNATURE == [i \in 1..SIGNATURE_BYTES_LEN |-> 0]

\* ------------------------------------------------------------------ Option
None == << >>

Some(p) == << p >>

Points == 0..(GroupOrder - 1)

OptionPoint == {None} \cup {Some(p) : p \in Points}

\* ---------------------------------------------- backend (TAggregateSignature)
\* AggSig::zero(): the identity point.
AggSig_zero == 0

\* AggSig::add_assign(&mut self, other: &Sig): point addition.
AggSig_add_assign(p, q) == (p + q) % GroupOrder

\* AggSig::add_assign_aggregate(&mut self, other: &Self): point addition.
AggSig_add_assign_aggregate(p, q) == (p + q) % GroupOrder

\* AggSig::serialize(): canonical encoding; the first byte carries the
\* compression flag (and the infinity flag for the identity), so the
\* encoding of a point is never the all-zero pattern.
AggSig_serialize(p) ==
    [i \in 1..SIGNATURE_BYTES_LEN |->
        IF i = 1 THEN (IF p = 0 THEN 192 ELSE 128)
        ELSE IF i = SIGNATURE_BYTES_LEN THEN p
        ELSE 0]

\* AggSig::deserialize(bytes): Err on a wrong length or on bytes that are
\* not the canonical encoding of a point of the group.
AggSig_deserialize(bytes) ==
    IF Len(bytes) # SIGNATURE_BYTES_LEN
    THEN [ok |-> FALSE, val |-> 0]
    ELSE IF \E p \in Points : AggSig_serialize(p) = bytes
         THEN [ok |-> TRUE,
               val |-> CHOOSE p \in Points : AggSig_serialize(p) = bytes]
         ELSE [ok |-> FALSE, val |-> 0]

\* Message digest hashed to the group, and the sum of sk_i * H(m_i).
HashToPoint(m) == m % GroupOrder

RECURSIVE SumSigned(_, _)
SumSigned(msgs, pubkeys) ==
    IF pubkeys = << >> THEN 0
    ELSE (Head(pubkeys) * HashToPoint(Head(msgs))
          + SumSigned(Tail(msgs), Tail(pubkeys))) % GroupOrder

\* AggSig::fast_aggregate_verify(msg, pubkeys): single message, many keys.
AggSig_fast_aggregate_verify(p, msg, pubkeys) ==
    p = SumSigned([i \in 1..Len(pubkeys) |-> msg], pubkeys)

\* AggSig::aggregate_verify(msgs, pubkeys): one message per key.
AggSig_aggregate_verify(p, msgs, pubkeys) ==
    p = SumSigned(msgs, pubkeys)

\* ----------------------------------------------------- AggregateSignature
zero == Some(AggSig_zero)

empty == None

is_empty(self) == self = None

\* Plausible slip: the None case of `other` is propagated instead of ignored.
add_assign_PropagateNone(self, other) ==
    IF other = None THEN None
    ELSE IF self # None
         THEN Some(AggSig_add_assign(self[1], other[1]))
         ELSE Some(AggSig_add_assign(AggSig_zero, other[1]))

\* Plausible slip: the empty branch installs zero() and forgets the add.
add_assign_ForgetAdd(self, other) ==
    IF other # None
    THEN IF self # None
         THEN Some(AggSig_add_assign(self[1], other[1]))
         ELSE Some(AggSig_zero)
    ELSE self

add_assign(self, other) ==
    IF other # None
    THEN IF self # None
         THEN Some(AggSig_add_assign(self[1], other[1]))
         ELSE Some(AggSig_add_assign(AggSig_zero, other[1]))
    ELSE self

\* Plausible slip: the empty branch builds self_point but never stores it.
add_assign_aggregate_NoInstall(self, other) ==
    IF other # None
    THEN IF self # None
         THEN Some(AggSig_add_assign_aggregate(self[1], other[1]))
         ELSE self
    ELSE self

\* Plausible slip: an empty `other` clears the instance instead of being
\* ignored.
add_assign_aggregate_PropagateNone(self, other) ==
    IF other = None THEN None
    ELSE IF self # None
         THEN Some(AggSig_add_assign_aggregate(self[1], other[1]))
         ELSE Some(AggSig_add_assign_aggregate(AggSig_zero, other[1]))

\* Plausible slip: the empty branch takes the other point's place, the
\* holding branch overwrites instead of adding.
add_assign_aggregate_Overwrite(self, other) ==
    IF other # None THEN other ELSE self

add_assign_aggregate(self, other) ==
    IF other # None
    THEN IF self # None
         THEN Some(AggSig_add_assign_aggregate(self[1], other[1]))
         ELSE Some(AggSig_add_assign_aggregate(AggSig_zero, other[1]))
    ELSE self

\* Plausible slip: an empty aggregate is serialized as the zero() point.
serialize_EmptyAsZero(self) ==
    IF self # None THEN AggSig_serialize(self[1])
    ELSE AggSig_serialize(AggSig_zero)

serialize(self) ==
    IF self # None THEN AggSig_serialize(self[1]) ELSE NONE_SIGNATURE

\* Plausible slip: the NONE_SIGNATURE comparison is missing.
deserialize_NoSentinel(bytes) ==
    LET r == AggSig_deserialize(bytes)
    IN IF r.ok THEN [ok |-> TRUE, point |-> Some(r.val)]
       ELSE [ok |-> FALSE, point |-> None]

\* Plausible slip: the sentinel test looks at the bytes but not the length.
deserialize_AnyLengthZero(bytes) ==
    IF \A i \in 1..Len(bytes) : bytes[i] = 0
    THEN [ok |-> TRUE, point |-> None]
    ELSE LET r == AggSig_deserialize(bytes)
         IN IF r.ok THEN [ok |-> TRUE, point |-> Some(r.val)]
            ELSE [ok |-> FALSE, point |-> None]

deserialize(bytes) ==
    IF bytes = NONE_SIGNATURE
    THEN [ok |-> TRUE, point |-> None]
    ELSE LET r == AggSig_deserialize(bytes)
         IN IF r.ok THEN [ok |-> TRUE, point |-> Some(r.val)]
            ELSE [ok |-> FALSE, point |-> None]

\* Verification returns the boolean and, for the model, whether the backend
\* primitive was reached.
\* Plausible slip: the pubkeys.is_empty() early return is missing.
fast_aggregate_verify_NoKeyCheck(self, msg, pubkeys) ==
    IF self # None
    THEN [result |-> AggSig_fast_aggregate_verify(self[1], msg, pubkeys),
          invoked |-> TRUE]
    ELSE [result |-> FALSE, invoked |-> FALSE]

\* Plausible slip: an aggregate holding the identity is treated as empty.
fast_aggregate_verify_ZeroAsEmpty(self, msg, pubkeys) ==
    IF pubkeys = << >> THEN [result |-> FALSE, invoked |-> FALSE]
    ELSE IF self # None /\ self # Some(AggSig_zero)
         THEN [result |-> AggSig_fast_aggregate_verify(self[1], msg, pubkeys),
               invoked |-> TRUE]
         ELSE [result |-> FALSE, invoked |-> FALSE]

fast_aggregate_verify(self, msg, pubkeys) ==
    IF pubkeys = << >> THEN [result |-> FALSE, invoked |-> FALSE]
    ELSE IF self # None
         THEN [result |-> AggSig_fast_aggregate_verify(self[1], msg, pubkeys),
               invoked |-> TRUE]
         ELSE [result |-> FALSE, invoked |-> FALSE]

aggregate_verify(self, msgs, pubkeys) ==
    IF msgs = << >> \/ Len(msgs) # Len(pubkeys)
    THEN [result |-> FALSE, invoked |-> FALSE]
    ELSE IF self # None
         THEN [result |-> AggSig_aggregate_verify(self[1], msgs, pubkeys),
               invoked |-> TRUE]
         ELSE [result |-> FALSE, invoked |-> FALSE]

\* ------------------------------------------------------------ input sets
Keys == 1..NumKeys

Msgs == 1..NumMsgs

SeqUpTo(S, n) == UNION {[1..k -> S] : k \in 0..n}

Zeros(n) == [i \in 1..n |-> 0]

\* Byte strings handed to deserialize besides real serializations: the
\* sentinel, all-zero strings of the wrong length, truncated and extended
\* point encodings, and 96-byte strings that encode no point.
BadBytes ==
    { Zeros(SIGNATURE_BYTES_LEN - 1),
      Zeros(SIGNATURE_BYTES_LEN + 1),
      SubSeq(AggSig_serialize(AggSig_zero), 1, SIGNATURE_BYTES_LEN - 1),
      Append(AggSig_serialize(AggSig_zero), 0),
      [i \in 1..SIGNATURE_BYTES_LEN |-> 255],
      [i \in 1..SIGNATURE_BYTES_LEN |-> IF i = SIGNATURE_BYTES_LEN THEN 1 ELSE 0],
      [i \in 1..SIGNATURE_BYTES_LEN |-> IF i = 1 THEN 128 ELSE 0] }

ByteInputs ==
    {NONE_SIGNATURE} \cup {AggSig_serialize(p) : p \in Points} \cup BadBytes

\* ------------------------------------------------------------------ state
VARIABLES
    origin,    \* "zero" or "empty": the constructor that made the instance
    point,     \* the instance's field `point: Option<AggSig>`
    history,   \* the arguments folded so far, in call order
    returned,  \* the call whose return value the caller holds, or "none"
    serOut,    \* bytes returned by serialize()
    decIn,     \* bytes given to deserialize()
    decRes,    \* its Result<Self, Error>
    vMsgs,     \* message digests of the verification call
    vKeys,     \* pubkeys of the verification call
    vRes       \* its boolean and whether the backend primitive ran

vars == << origin, point, history, returned, serOut, decIn, decRes,
           vMsgs, vKeys, vRes >>

NoDec == [ok |-> FALSE, point |-> None]

NoVerify == [result |-> FALSE, invoked |-> FALSE]

Init ==
    /\ origin \in {"zero", "empty"}
    /\ point = (IF origin = "zero" THEN zero ELSE empty)
    /\ history = << >>
    /\ returned = "none"
    /\ serOut = << >>
    /\ decIn = << >>
    /\ decRes = NoDec
    /\ vMsgs = << >>
    /\ vKeys = << >>
    /\ vRes = NoVerify

\* self.add_assign(&Signature): other.point() is the signature's Option.
Call_add_assign ==
    /\ returned = "none"
    /\ Len(history) < MaxFolds
    /\ \E other \in OptionPoint :
         /\ point' = add_assign(point, other)
         /\ history' = Append(history, [kind |-> "sig", point |-> other])
    /\ UNCHANGED << origin, returned, serOut, decIn, decRes,
                    vMsgs, vKeys, vRes >>

\* self.add_assign_aggregate(&Self): other is any aggregate.
Call_add_assign_aggregate ==
    /\ returned = "none"
    /\ Len(history) < MaxFolds
    /\ \E other \in OptionPoint :
         /\ point' = add_assign_aggregate(point, other)
         /\ history' = Append(history, [kind |-> "agg", point |-> other])
    /\ UNCHANGED << origin, returned, serOut, decIn, decRes,
                    vMsgs, vKeys, vRes >>

Call_serialize ==
    /\ returned = "none"
    /\ serOut' = serialize(point)
    /\ returned' = "serialize"
    /\ UNCHANGED << origin, point, history, decIn, decRes,
                    vMsgs, vKeys, vRes >>

\* AggregateSignature::deserialize(bytes), on arbitrary bytes or on the
\* bytes the instance itself serializes to.
Call_deserialize ==
    /\ returned = "none"
    /\ \E bytes \in ByteInputs \cup {serialize(point)} :
         /\ decIn' = bytes
         /\ decRes' = deserialize(bytes)
    /\ returned' = "deserialize"
    /\ UNCHANGED << origin, point, history, serOut, vMsgs, vKeys, vRes >>

Call_fast_aggregate_verify ==
    /\ returned = "none"
    /\ Len(history) <= MaxVerifyFolds
    /\ \E msg \in Msgs, pubkeys \in SeqUpTo(Keys, MaxKeys) :
         /\ vMsgs' = << msg >>
         /\ vKeys' = pubkeys
         /\ vRes' = fast_aggregate_verify(point, msg, pubkeys)
    /\ returned' = "fast_aggregate_verify"
    /\ UNCHANGED << origin, point, history, serOut, decIn, decRes >>

Call_aggregate_verify ==
    /\ returned = "none"
    /\ Len(history) <= MaxVerifyFolds
    /\ \E msgs \in SeqUpTo(Msgs, MaxKeys), pubkeys \in SeqUpTo(Keys, MaxKeys) :
         /\ vMsgs' = msgs
         /\ vKeys' = pubkeys
         /\ vRes' = aggregate_verify(point, msgs, pubkeys)
    /\ returned' = "aggregate_verify"
    /\ UNCHANGED << origin, point, history, serOut, decIn, decRes >>

\* The caller drops the value a call returned; the instance is untouched.
Discard ==
    /\ returned # "none"
    /\ returned' = "none"
    /\ serOut' = << >>
    /\ decIn' = << >>
    /\ decRes' = NoDec
    /\ vMsgs' = << >>
    /\ vKeys' = << >>
    /\ vRes' = NoVerify
    /\ UNCHANGED << origin, point, history >>

Next ==
    \/ Call_add_assign
    \/ Call_add_assign_aggregate
    \/ Call_serialize
    \/ Call_deserialize
    \/ Call_fast_aggregate_verify
    \/ Call_aggregate_verify
    \/ Discard

Spec == Init /\ [][Next]_vars

TypeOK ==
    /\ origin \in {"zero", "empty"}
    /\ point \in OptionPoint
    /\ Len(history) <= MaxFolds
    /\ vRes \in [result : BOOLEAN, invoked : BOOLEAN]

\* ------------------------------------------------------- folding helpers
\* The instance as its constructor returned it.
Start == IF origin = "zero" THEN zero ELSE empty

\* One recorded fold, dispatched to the method that was called.
ApplyInput(self, in) ==
    IF in.kind = "sig" THEN add_assign(self, in.point)
    ELSE add_assign_aggregate(self, in.point)

RECURSIVE FoldAll(_, _)
FoldAll(self, h) ==
    IF h = << >> THEN self
    ELSE FoldAll(ApplyInput(self, Head(h)), Tail(h))

Reorder(h, perm) == [i \in 1..Len(h) |-> h[perm[i]]]

HasPoint(in) == in.point # None

AllSigs(h) == \A i \in 1..Len(h) : h[i].kind = "sig"

Rejected == [result |-> FALSE, invoked |-> FALSE]

\* ----------------------------------------------------------------- claims

\* C1 (round trip): whenever deserialize is given exactly the bytes the
\* instance serializes to, it succeeds and returns an aggregate with the
\* same emptiness and the same held point as the instance.
C1_RoundTrip ==
    (returned = "deserialize" /\ decIn = serialize(point))
        => /\ decRes.ok
           /\ is_empty(decRes.point) = is_empty(point)
           /\ decRes.point = point

C1_Witness ==
    /\ returned = "deserialize"
    /\ decIn = serialize(point)
    /\ Len(history) >= 2
    /\ point = Some(1)
    /\ decRes = [ok |-> TRUE, point |-> Some(1)]

\* C2 (empty sentinel): an empty instance serializes to 96 zero bytes, and
\* deserialize succeeds with an empty aggregate exactly when its input is
\* the 96-byte all-zero pattern (any other success is non-empty).
C2_EmptySentinel ==
    /\ (returned = "serialize" /\ is_empty(point))
          => serOut = Zeros(96)
    /\ returned = "deserialize"
          => ((decRes.ok /\ is_empty(decRes.point)) <=> decIn = Zeros(96))

C2_Witness ==
    /\ returned = "deserialize"
    /\ decIn = Zeros(96)
    /\ decRes.ok
    /\ is_empty(decRes.point)

\* C3 (order independence): the bytes serialize() returns equal the bytes
\* obtained by replaying the recorded folds from the same starting aggregate
\* in any order; and when the folds were all signatures, splitting them
\* anywhere into two aggregates (built from empty(), or built from zero()
\* when both parts are non-empty lists of signatures that have points) and
\* folding those two aggregates gives the same bytes.
C3_OrderIndependence ==
    returned = "serialize" =>
      /\ \A perm \in Permutations(1..Len(history)) :
            serialize(FoldAll(Start, Reorder(history, perm))) = serOut
      /\ AllSigs(history) =>
            \A k \in 0..Len(history) :
               LET left == SubSeq(history, 1, k)
                   right == SubSeq(history, k + 1, Len(history))
                   viaEmpty ==
                       add_assign_aggregate(
                           add_assign_aggregate(Start, FoldAll(empty, left)),
                           FoldAll(empty, right))
                   viaZero ==
                       add_assign_aggregate(
                           add_assign_aggregate(Start, FoldAll(zero, left)),
                           FoldAll(zero, right))
               IN /\ serialize(viaEmpty) = serOut
                  /\ (k >= 1 /\ k < Len(history)
                      /\ \A i \in 1..Len(history) : HasPoint(history[i]))
                        => serialize(viaZero) = serOut

C3_Witness ==
    /\ returned = "serialize"
    /\ Len(history) = 3
    /\ AllSigs(history)
    /\ history[1].point = Some(1)
    /\ history[2].point = Some(2)
    /\ history[3].point = Some(2)
    /\ serOut = AggSig_serialize(2)

\* C4 (no-op absorption): a fold whose argument has no point (a point-less
\* signature or an empty aggregate) leaves the instance's point, its
\* serialization and its emptiness unchanged.
C4_NoOpAbsorption ==
    [][(/\ Len(history') = Len(history) + 1
        /\ ~HasPoint(history'[Len(history')]))
          => /\ point' = point
             /\ serialize(point') = serialize(point)
             /\ is_empty(point') = is_empty(point)]_vars

C4_Witness ==
    /\ Len(history) = 2
    /\ HasPoint(history[1])
    /\ history[2] = [kind |-> "agg", point |-> None]
    /\ point = history[1].point

\* C5 (zero versus empty): a fresh zero() is not empty and a fresh empty()
\* is; after one add_assign of a signature that has a point, either start
\* gives a non-empty aggregate serializing to the encoding of identity + S.
C5_ZeroVersusEmpty ==
    /\ history = << >> => (is_empty(point) <=> origin = "empty")
    /\ ~is_empty(zero)
    /\ is_empty(empty)
    /\ (Len(history) = 1 /\ history[1].kind = "sig" /\ HasPoint(history[1]))
          => /\ ~is_empty(point)
             /\ serialize(point) = serialize(add_assign(empty, history[1].point))
             /\ serialize(point) = serialize(add_assign(zero, history[1].point))
             /\ serialize(point) =
                  AggSig_serialize(
                      AggSig_add_assign(AggSig_zero, history[1].point[1]))

C5_Witness ==
    /\ origin = "empty"
    /\ history = << [kind |-> "sig", point |-> Some(1)] >>
    /\ point = Some(1)
    /\ returned = "serialize"
    /\ serOut = AggSig_serialize(1)

\* C6 (verification false cases): fast_aggregate_verify with no pubkeys or
\* on an empty aggregate, and aggregate_verify with no messages, a length
\* mismatch or an empty aggregate, return false without reaching the
\* backend primitive.
C6_VerifyFalseCases ==
    /\ (returned = "fast_aggregate_verify"
        /\ (vKeys = << >> \/ is_empty(point)))
          => vRes = Rejected
    /\ (returned = "aggregate_verify"
        /\ (vMsgs = << >> \/ Len(vMsgs) # Len(vKeys) \/ is_empty(point)))
          => vRes = Rejected

C6_Witness ==
    /\ returned = "fast_aggregate_verify"
    /\ vKeys = << >>
    /\ point = zero
    /\ vRes = Rejected

\* C7 (decode rejection): deserialize fails on every input whose length is
\* not 96, all-zero ones included, and on every non-zero 96-byte input the
\* backend rejects.
C7_DecodeRejection ==
    (returned = "deserialize"
     /\ (\/ Len(decIn) # 96
         \/ (decIn # Zeros(96) /\ ~AggSig_deserialize(decIn).ok)))
        => ~decRes.ok

C7_Witness ==
    /\ returned = "deserialize"
    /\ decIn = Zeros(95)
    /\ ~decRes.ok

\* C8 (monotone state machine): an instance made by zero() is never empty,
\* and no step takes a non-empty instance to an empty one.
C8_Monotone ==
    /\ [](origin = "zero" => ~is_empty(point))
    /\ [][~is_empty(point) => ~is_empty(point')]_vars

C8_Witness ==
    /\ origin = "empty"
    /\ Len(history) = 3
    /\ HasPoint(history[1])
    /\ history[2] = [kind |-> "sig", point |-> None]
    /\ history[3] = [kind |-> "agg", point |-> None]
    /\ ~is_empty(point)

\* C9 (exact emptiness): an instance made by empty() is empty exactly when
\* every fold so far had an argument without a point; a fold of zero()
\* (the identity) already makes it non-empty.
C9_ExactEmptiness ==
    origin = "empty"
        => (is_empty(point)
              <=> \A i \in 1..Len(history) : ~HasPoint(history[i]))

C9_Witness ==
    /\ origin = "empty"
    /\ Len(history) = 2
    /\ history[1] = [kind |-> "sig", point |-> None]
    /\ history[2] = [kind |-> "agg", point |-> zero]
    /\ point = zero

\* C10 (verification delegation): on a non-empty aggregate with well-shaped
\* arguments both verification calls reach the backend primitive and return
\* exactly its boolean for the held point, and neither changes the instance.
C10_Delegation ==
    /\ [](/\ (returned = "fast_aggregate_verify"
              /\ ~is_empty(point) /\ vKeys # << >>)
                => /\ vRes.invoked
                   /\ vRes.result =
                        AggSig_fast_aggregate_verify(point[1], vMsgs[1], vKeys)
          /\ (returned = "aggregate_verify"
              /\ ~is_empty(point) /\ vMsgs # << >> /\ Len(vMsgs) = Len(vKeys))
                => /\ vRes.invoked
                   /\ vRes.result =
                        AggSig_aggregate_verify(point[1], vMsgs, vKeys))
    /\ [][returned' \in {"fast_aggregate_verify", "aggregate_verify"}
            => point' = point]_vars

C10_Witness ==
    /\ returned = "fast_aggregate_verify"
    /\ point = zero
    /\ Len(vKeys) = 2
    /\ vRes = [result |-> TRUE, invoked |-> TRUE]

====
